---------------------------- MODULE Spec2Model ----------------------------
(***************************************************************************)
(* A model of cli/packages/cmd/secrets.go: the `secrets set`, `secrets     *)
(* delete` and `secrets generate-example-env` commands.                    *)
(*                                                                         *)
(* Strings are sequences of one-character strings, so that                 *)
(* strings.ToUpper, strings.SplitN and the byte-wise string order are      *)
(* computed and not assumed.                                               *)
(***************************************************************************)
EXTENDS Integers, Sequences, FiniteSets

VARIABLES
    cmd,                \* which sub-command runs: "set", "delete", "generate"
    args,               \* the command's positional arguments
    remote,             \* the secrets the server holds (what the fetch returns)
    pc,                 \* position of the Run function
    secrets,            \* local `secrets` slice
    secretByKey,        \* local `secretByKey` map
    secretsToCreate,    \* local slice (set)
    secretsToModify,    \* local slice (set)
    secretOperations,   \* local slice (set)
    validSecretIdsToDelete,             \* local slice (delete)
    invalidSecretNamesThatDoNotExist,   \* local slice (delete)
    tagsHashToSecretKey,        \* local map hash -> count (generate)
    finalTagHashToSecretKey,    \* local map hash -> TagsAndSecrets (generate)
    listOfsecretDetails,        \* local slice of TagsAndSecrets (generate)
    emitted,            \* groups printed by this run of generate, in order
    prevEmitted,        \* groups printed by the previous run on the same remote
    run,                \* number of the current run of generate
    netCalls,           \* the API calls issued so far, in order
    exitKind,           \* "" while running, else how the process ended
    exitMsg,            \* message printed by the exit path
    table               \* whether visualize.Table was called, and its rows

vars == <<cmd, args, remote, pc, secrets, secretByKey, secretsToCreate,
          secretsToModify, secretOperations, validSecretIdsToDelete,
          invalidSecretNamesThatDoNotExist, tagsHashToSecretKey,
          finalTagHashToSecretKey, listOfsecretDetails, emitted, prevEmitted,
          run, netCalls, exitKind, exitMsg, table>>

setVars == <<secretsToCreate, secretsToModify, secretOperations>>
delVars == <<validSecretIdsToDelete, invalidSecretNamesThatDoNotExist>>
genVars == <<tagsHashToSecretKey, finalTagHashToSecretKey, listOfsecretDetails,
             emitted, prevEmitted, run>>

-----------------------------------------------------------------------------
(* Bounds of the model *)

MaxArgs == 2
MaxRemote == 2
MaxGenSecrets == 3
MaxRuns == 2

-----------------------------------------------------------------------------
(* Strings *)

Range(s) == {s[i] : i \in DOMAIN s}

Ord(c) ==
    CASE c = "1" -> 49
      [] c = "=" -> 61
      [] c = "A" -> 65
      [] c = "B" -> 66
      [] c = "C" -> 67
      [] c = "X" -> 88
      [] c = "Y" -> 89
      [] c = "a" -> 97
      [] c = "b" -> 98
      [] c = "c" -> 99
      [] c = "x" -> 120
      [] c = "y" -> 121

\* Go's < on strings: byte-wise lexicographic
RECURSIVE StrLess(_, _)
StrLess(s, t) ==
    IF t = <<>> THEN FALSE
    ELSE IF s = <<>> THEN TRUE
    ELSE IF Ord(Head(s)) # Ord(Head(t)) THEN Ord(Head(s)) < Ord(Head(t))
    ELSE StrLess(Tail(s), Tail(t))

UpperChar(c) ==
    CASE c = "a" -> "A"
      [] c = "b" -> "B"
      [] c = "c" -> "C"
      [] c = "x" -> "X"
      [] c = "y" -> "Y"
      [] OTHER -> c

ToUpper(s) == [i \in DOMAIN s |-> UpperChar(s[i])]

IsNumber(c) == c \in {"0", "1", "2", "3", "4", "5", "6", "7", "8", "9"}

\* strings.SplitN(arg, "=", 2)
SplitN(arg) ==
    IF \E i \in DOMAIN arg : arg[i] = "="
    THEN LET i == CHOOSE i \in DOMAIN arg :
                     /\ arg[i] = "="
                     /\ \A j \in 1..(i - 1) : arg[j] # "="
         IN  <<SubSeq(arg, 1, i - 1), SubSeq(arg, i + 1, Len(arg))>>
    ELSE <<arg>>

\* fmt.Sprintf("%x", sha256.Sum256(b)): a deterministic, collision-free digest
Sha256(s) == <<"sha256", s>>

\* All sequences over S of length lo..hi
SeqsOf(S, lo, hi) == UNION {[1..n -> S] : n \in lo..hi}


-----------------------------------------------------------------------------
(* Inputs *)

\* Arguments of `secrets set`: well-formed pairs in both casings, the same
\* key twice, and the malformed shapes the loop tests for.
SetArgPool ==
    { <<"a", "=", "x">>, <<"A", "=", "y">>, <<"b", "=", "x">>,
      <<"1", "a", "=", "x">>, <<"=", "x">>, <<"a", "=">>, <<"a">>, <<>> }

\* Arguments of `secrets delete`
DeleteArgPool == { <<"a">>, <<"A">>, <<"B">>, <<"c">> }

SetRemoteKeys == { <<"A">>, <<"a">>, <<"B">>, <<"c">> }
SetRemoteValues == { <<"x">>, <<"y">> }

GenRemoteKeys == { <<"A">>, <<"B">>, <<"C">> }
TagSlugs == { <<"a">>, <<"b">> }

\* Tag lists of a secret: every order of every set of slugs
TagLists ==
    { t \in SeqsOf(TagSlugs, 0, Cardinality(TagSlugs)) :
        \A i, j \in DOMAIN t : i # j => t[i] # t[j] }

\* models.SingleEnvironmentVariable: the fields this file reads
IdOf(i) == <<"id", i>>

WithIds(l) ==
    [i \in DOMAIN l |->
        [ID |-> IdOf(i), Key |-> l[i].Key, Value |-> l[i].Value, Tags |-> l[i].Tags]]

\* The server holds one secret per key, keys compared without case
RemoteLists(K, V, T, max) ==
    { WithIds(l) : l \in
        { l \in SeqsOf([Key : K, Value : V, Tags : T], 0, max) :
            \A i, j \in DOMAIN l :
                i # j => ToUpper(l[i].Key) # ToUpper(l[j].Key) } }

SetRemotes == RemoteLists(SetRemoteKeys, SetRemoteValues, {<<>>}, MaxRemote)
GenRemotes == RemoteLists(GenRemoteKeys, {<<"x">>}, TagLists, MaxGenSecrets)

-----------------------------------------------------------------------------
(* Process exit *)

MsgEmpty ==
    "ensure that each secret has a none empty key and value. Modify the input and try again"
MsgNumber ==
    "keys of secrets cannot start with a number. Modify the key name(s) and try again"

\* util.PrintMessageAndExit: prints the message and ends the process
PrintMessageAndExit(msg) ==
    /\ pc' = "exited"
    /\ exitKind' = "message"
    /\ exitMsg' = msg

\* util.HandleError: prints the error and ends the process
HandleError(msg) ==
    /\ pc' = "exited"
    /\ exitKind' = "error"
    /\ exitMsg' = msg

\* Go runtime panic (index out of range): the process ends with a stack trace
RuntimePanic ==
    /\ pc' = "exited"
    /\ exitKind' = "panic"
    /\ exitMsg' = "index out of range"

\* One API call and whether it succeeded
Call(api, body, ok) == [api |-> api, body |-> body, ok |-> ok]

-----------------------------------------------------------------------------
(* secrets set *)

\* getSecretsByKeys: map keyed by secret.Key as fetched, last entry wins
getSecretsByKeys(ss) ==
    [k \in {ss[i].Key : i \in DOMAIN ss} |->
        ss[CHOOSE i \in DOMAIN ss :
              /\ ss[i].Key = k
              /\ \A j \in DOMAIN ss : ss[j].Key = k => j <= i]]

SECRET_TYPE_SHARED == "shared"

\* The same entry without the id of the existing secret
ModifyEntry_NoId(existingSecret, value) ==
    [ID |-> <<>>, SecretKeyHash |-> <<>>,
     SecretValueHash |-> Sha256(value), Type |-> ""]

\* api.Secret built in the `exists` branch (ciphertext, iv and tag are the
\* output of crypto.EncryptSymmetric under a fresh nonce and are left out)
ModifyEntry(existingSecret, value) ==
    [ID |-> existingSecret.ID, SecretKeyHash |-> <<>>,
     SecretValueHash |-> Sha256(value), Type |-> ""]

\* api.Secret built in the `else` branch
CreateEntry(key, value) ==
    [ID |-> <<>>, SecretKeyHash |-> Sha256(key),
     SecretValueHash |-> Sha256(value), Type |-> SECRET_TYPE_SHARED]

Operation(key, value, op) ==
    [SecretKey |-> key, SecretValue |-> value, SecretOperation |-> op]

\* The checks without the test of the key's first character
Validate_NoNumberCheck(split) ==
    IF split[1] = <<>> THEN "empty"
    ELSE IF Len(split) < 2 THEN "panic"
    ELSE IF split[2] = <<>> THEN "empty"
    ELSE ""

\* The two checks at the head of the loop body, on the result of SplitN.
\* "" when the argument passes; split[1] of a one-element slice is read
\* only when split[0] is not empty, and then panics.
Validate(split) ==
    IF split[1] = <<>> THEN "empty"
    ELSE IF Len(split) < 2 THEN "panic"
    ELSE IF split[2] = <<>> THEN "empty"
    ELSE IF IsNumber(split[1][1]) THEN "number"
    ELSE ""

\* The entry is appended before the values are compared
ClassifyExisting_AppendFirst(st, existingSecret, key, value) ==
    IF existingSecret.Value # value
    THEN [st EXCEPT
            !.toModify = Append(@, ModifyEntry(existingSecret, value)),
            !.ops = Append(@, Operation(key, value, "SECRET VALUE MODIFIED"))]
    ELSE [st EXCEPT
            !.toModify = Append(@, ModifyEntry(existingSecret, value)),
            !.ops = Append(@, Operation(key, value, "SECRET VALUE UNCHANGED"))]

\* `if existingSecret, ok := secretByKey[key]; ok { ... }`
ClassifyExisting(st, existingSecret, key, value) ==
    IF existingSecret.Value # value
    THEN [st EXCEPT
            !.toModify = Append(@, ModifyEntry(existingSecret, value)),
            !.ops = Append(@, Operation(key, value, "SECRET VALUE MODIFIED"))]
    ELSE [st EXCEPT
            !.ops = Append(@, Operation(key, value, "SECRET VALUE UNCHANGED"))]

\* `} else { ... }`: the secret does not exist in the project
ClassifyMissing(st, key, value) ==
    [st EXCEPT
        !.toCreate = Append(@, CreateEntry(key, value)),
        !.ops = Append(@, Operation(key, value, "SECRET CREATED"))]

\* One iteration of `for _, arg := range args`. st.stop # "" once the
\* process has ended inside the loop.
ReconcileArg(st, arg, byKey) ==
    LET split == SplitN(arg)
        stop == Validate(split)
    IN
    IF stop # "" THEN [st EXCEPT !.stop = stop]
    ELSE
        LET key == ToUpper(split[1])
            value == split[2]
        IN
        IF key \in DOMAIN byKey
        THEN ClassifyExisting(st, byKey[key], key, value)
        ELSE ClassifyMissing(st, key, value)

RECURSIVE ReconcileLoop(_, _, _)
ReconcileLoop(st, as, byKey) ==
    IF as = <<>> \/ st.stop # "" THEN st
    ELSE ReconcileLoop(ReconcileArg(st, Head(as), byKey), Tail(as), byKey)

SetFetchKey ==
    /\ cmd = "set" /\ pc = "set_key"
    /\ \E ok \in BOOLEAN :
        /\ netCalls' = Append(netCalls, Call("GetEncryptedWorkspaceKey", <<>>, ok))
        /\ IF ok
           THEN pc' = "set_secrets" /\ UNCHANGED <<exitKind, exitMsg>>
           ELSE HandleError("unable to get your encrypted workspace key")
    /\ UNCHANGED <<cmd, args, remote, secrets, secretByKey, setVars, delVars,
                   genVars, table>>

SetFetchSecrets ==
    /\ cmd = "set" /\ pc = "set_secrets"
    /\ \E ok \in BOOLEAN :
        /\ netCalls' = Append(netCalls, Call("GetAllEnvironmentVariables", <<>>, ok))
        /\ IF ok
           THEN /\ pc' = "set_reconcile"
                /\ secrets' = remote
                /\ UNCHANGED <<exitKind, exitMsg>>
           ELSE /\ HandleError("unable to retrieve secrets")
                /\ UNCHANGED secrets
    /\ UNCHANGED <<cmd, args, remote, secretByKey, setVars, delVars, genVars,
                   table>>

SetReconcile ==
    /\ cmd = "set" /\ pc = "set_reconcile"
    /\ LET byKey == getSecretsByKeys(secrets)
           st == ReconcileLoop([toCreate |-> <<>>, toModify |-> <<>>,
                                ops |-> <<>>, stop |-> ""], args, byKey)
       IN
       /\ secretByKey' = byKey
       /\ secretsToCreate' = st.toCreate
       /\ secretsToModify' = st.toModify
       /\ secretOperations' = st.ops
       /\ CASE st.stop = "empty" -> PrintMessageAndExit(MsgEmpty)
            [] st.stop = "number" -> PrintMessageAndExit(MsgNumber)
            [] st.stop = "panic" -> RuntimePanic
            [] OTHER -> pc' = "set_create" /\ UNCHANGED <<exitKind, exitMsg>>
    /\ UNCHANGED <<cmd, args, remote, secrets, delVars, genVars, netCalls, table>>

\* The failed create call is reported and the second batch still runs
CreateFailed_Continue ==
    pc' = "set_modify" /\ UNCHANGED <<exitKind, exitMsg>>

\* `if err != nil { util.HandleError(err, "..."); return }` after the create call
CreateFailed ==
    HandleError("Unable to process new secret creations")

\* `if err != nil { util.HandleError(err, "..."); return }` after the modify call
ModifyFailed ==
    HandleError("Unable to process the modifications to your secrets")

SetBatchCreate ==
    /\ cmd = "set" /\ pc = "set_create"
    /\ IF Len(secretsToCreate) > 0
       THEN \E ok \in BOOLEAN :
                /\ netCalls' = Append(netCalls,
                        Call("BatchCreateSecretsByWorkspaceAndEnv", secretsToCreate, ok))
                /\ IF ok
                   THEN pc' = "set_modify" /\ UNCHANGED <<exitKind, exitMsg>>
                   ELSE CreateFailed
       ELSE pc' = "set_modify" /\ UNCHANGED <<netCalls, exitKind, exitMsg>>
    /\ UNCHANGED <<cmd, args, remote, secrets, secretByKey, setVars, delVars,
                   genVars, table>>

SetBatchModify ==
    /\ cmd = "set" /\ pc = "set_modify"
    /\ IF Len(secretsToModify) > 0
       THEN \E ok \in BOOLEAN :
                /\ netCalls' = Append(netCalls,
                        Call("BatchModifySecretsByWorkspaceAndEnv", secretsToModify, ok))
                /\ IF ok
                   THEN pc' = "set_print" /\ UNCHANGED <<exitKind, exitMsg>>
                   ELSE ModifyFailed
       ELSE pc' = "set_print" /\ UNCHANGED <<netCalls, exitKind, exitMsg>>
    /\ UNCHANGED <<cmd, args, remote, secrets, secretByKey, setVars, delVars,
                   genVars, table>>

SetPrintTable ==
    /\ cmd = "set" /\ pc = "set_print"
    /\ table' = [printed |-> TRUE,
                 rows |-> [i \in DOMAIN secretOperations |->
                            <<secretOperations[i].SecretKey,
                              secretOperations[i].SecretValue,
                              secretOperations[i].SecretOperation>>]]
    /\ pc' = "done"
    /\ exitKind' = "ok"
    /\ UNCHANGED <<cmd, args, remote, secrets, secretByKey, setVars, delVars,
                   genVars, netCalls, exitMsg>>

InitLocals ==
    /\ secrets = <<>>
    /\ secretByKey = <<>>
    /\ secretsToCreate = <<>>
    /\ secretsToModify = <<>>
    /\ secretOperations = <<>>
    /\ validSecretIdsToDelete = <<>>
    /\ invalidSecretNamesThatDoNotExist = <<>>
    /\ tagsHashToSecretKey = <<>>
    /\ finalTagHashToSecretKey = <<>>
    /\ listOfsecretDetails = <<>>
    /\ emitted = <<>>
    /\ prevEmitted = <<>>
    /\ run = 1
    /\ netCalls = <<>>
    /\ exitKind = ""
    /\ exitMsg = ""
    /\ table = [printed |-> FALSE, rows |-> <<>>]

\* cobra.MinimumNArgs(1): at least one argument
InitSet ==
    /\ cmd = "set"
    /\ args \in SeqsOf(SetArgPool, 1, MaxArgs)
    /\ remote \in SetRemotes
    /\ pc = "set_key"
    /\ InitLocals

NextSet ==
    \/ SetFetchKey
    \/ SetFetchSecrets
    \/ SetReconcile
    \/ SetBatchCreate
    \/ SetBatchModify
    \/ SetPrintTable

SpecSet == InitSet /\ [][NextSet]_vars

-----------------------------------------------------------------------------
(* secrets delete *)

\* One iteration of `for _, secretKeyFromArg := range args`
ResolveArg(st, secretKeyFromArg, byKey) ==
    IF ToUpper(secretKeyFromArg) \in DOMAIN byKey
    THEN [st EXCEPT !.valid = Append(@, byKey[ToUpper(secretKeyFromArg)].ID)]
    ELSE [st EXCEPT !.invalid = Append(@, secretKeyFromArg)]

RECURSIVE ResolveLoop(_, _, _)
ResolveLoop(st, as, byKey) ==
    IF as = <<>> THEN st
    ELSE ResolveLoop(ResolveArg(st, Head(as), byKey), Tail(as), byKey)

\* fmt.Sprintf("secret name(s) [%v] does not exist in your project. ...",
\*             strings.Join(names, ", "))
MsgDoesNotExist(names) == <<"does not exist in your project", names>>

\* The call is made as soon as one name resolved
DeleteProceeds_AnyValid(valid, invalid) == Len(valid) # 0

\* `if len(invalidSecretNamesThatDoNotExist) != 0 { PrintMessageAndExit }`:
\* whether the command goes on to the batch delete call
DeleteProceeds(valid, invalid) == Len(invalid) = 0

DeleteFetch ==
    /\ cmd = "delete" /\ pc = "del_secrets"
    /\ \E ok \in BOOLEAN :
        /\ netCalls' = Append(netCalls, Call("GetAllEnvironmentVariables", <<>>, ok))
        /\ IF ok
           THEN /\ pc' = "del_resolve"
                /\ secrets' = remote
                /\ UNCHANGED <<exitKind, exitMsg>>
           ELSE /\ HandleError("Unable to fetch secrets")
                /\ UNCHANGED secrets
    /\ UNCHANGED <<cmd, args, remote, secretByKey, setVars, delVars, genVars,
                   table>>

DeleteResolve ==
    /\ cmd = "delete" /\ pc = "del_resolve"
    /\ LET byKey == getSecretsByKeys(secrets)
           st == ResolveLoop([valid |-> <<>>, invalid |-> <<>>], args, byKey)
       IN
       /\ secretByKey' = byKey
       /\ validSecretIdsToDelete' = st.valid
       /\ invalidSecretNamesThatDoNotExist' = st.invalid
       /\ IF DeleteProceeds(st.valid, st.invalid)
          THEN pc' = "del_call" /\ UNCHANGED <<exitKind, exitMsg>>
          ELSE PrintMessageAndExit(MsgDoesNotExist(st.invalid))
    /\ UNCHANGED <<cmd, args, remote, secrets, setVars, genVars, netCalls, table>>

DeleteCall ==
    /\ cmd = "delete" /\ pc = "del_call"
    /\ \E ok \in BOOLEAN :
        /\ netCalls' = Append(netCalls,
                Call("BatchDeleteSecretsByWorkspaceAndEnv", validSecretIdsToDelete, ok))
        /\ IF ok
           THEN /\ pc' = "done"
                /\ exitKind' = "ok"
                /\ exitMsg' = <<"have been deleted from your project", args>>
           ELSE HandleError("Unable to complete your batch delete request")
    /\ UNCHANGED <<cmd, args, remote, secrets, secretByKey, setVars, delVars,
                   genVars, table>>

InitDelete ==
    /\ cmd = "delete"
    /\ args \in SeqsOf(DeleteArgPool, 1, MaxArgs)
    /\ remote \in SetRemotes
    /\ pc = "del_secrets"
    /\ InitLocals

NextDelete ==
    \/ DeleteFetch
    \/ DeleteResolve
    \/ DeleteCall

SpecDelete == InitDelete /\ [][NextDelete]_vars

-----------------------------------------------------------------------------
(* secrets generate-example-env *)

\* Every reordering of the slice l
Reorderings(l) ==
    { [i \in DOMAIN l |-> l[f[i]]] :
        f \in { g \in [DOMAIN l -> DOMAIN l] :
                    \A i, j \in DOMAIN l : i # j => g[i] # g[j] } }

\* The `less` functions this file sorts with
Less(by, x, y) ==
    CASE by = "string" -> StrLess(x, y)
      [] by = "moreTags" -> Len(x.Tags) > Len(y.Tags)
      [] by = "fewerTags" -> Len(x.Tags) < Len(y.Tags)
      [] by = "key" -> StrLess(x.Key, y.Key)

\* sort.Slice(l, less): not stable, so every reordering of l that `less`
\* accepts as sorted is a possible result
SortSlice(l, by) ==
    { p \in Reorderings(l) :
        \A i, j \in DOMAIN p : i < j => ~Less(by, p[j], p[i]) }

\* sort.Strings: equal elements are identical, so the result is unique
SortStrings(l) == CHOOSE p \in SortSlice(l, "string") : TRUE

\* util.GetHashFromStringList: a deterministic digest of the list of slugs
GetHashFromStringList(list) == <<"hash", list>>

\* The hash of the slugs in the order the secret lists them
TagsHash_Unsorted(secret) == GetHashFromStringList(secret.Tags)

\* tagsHash of one secret, as both passes compute it
TagsHash(secret) == GetHashFromStringList(SortStrings(secret.Tags))

\* Go map assignment m[k] = v
MapPut(m, k, v) ==
    [x \in (DOMAIN m) \cup {k} |-> IF x = k THEN v ELSE m[x]]

\* Go map read m[k] with the zero value for a missing key
MapGet(m, k, zero) == IF k \in DOMAIN m THEN m[k] ELSE zero

\* First pass: tagsHashToSecretKey[tagsHash] += 1 for every secret
RECURSIVE CountPass(_, _)
CountPass(counts, ss) ==
    IF ss = <<>> THEN counts
    ELSE CountPass(MapPut(counts, TagsHash(Head(ss)),
                          MapGet(counts, TagsHash(Head(ss)), 0) + 1),
                   Tail(ss))

\* Body of the second loop for one secret
GroupStep(st, secret) ==
    LET tagsHash == TagsHash(secret)
        exists == tagsHash \in DOMAIN st.counts
        occurrence == MapGet(st.counts, tagsHash, 0)
    IN
    IF exists /\ occurrence > 0
    THEN LET exists2 == tagsHash \in DOMAIN st.final
             value == MapGet(st.final, tagsHash, [Tags |-> <<>>, Secrets |-> <<>>])
             \* keys are distinct, so the unstable sort has one result
             allSecretsForTags ==
                 CHOOSE p \in SortSlice(Append(value.Secrets, secret), "key") : TRUE
         IN  [counts |-> MapPut(st.counts, tagsHash, occurrence - 1),
              final |-> MapPut(st.final, tagsHash,
                  IF exists2
                  THEN [Tags |-> secret.Tags,
                        Secrets |-> allSecretsForTags]
                  ELSE [Tags |-> secret.Tags, Secrets |-> <<secret>>])]
    ELSE st

RECURSIVE GroupPass(_, _)
GroupPass(st, ss) ==
    IF ss = <<>> THEN st
    ELSE GroupPass(GroupStep(st, Head(ss)), Tail(ss))

\* `for _, secretDetails := range finalTagHashToSecretKey`: Go iterates a
\* map in an unspecified, per-run randomised order
MapValuesInSomeOrder(m) ==
    { l \in [1..Cardinality(DOMAIN m) -> {m[k] : k \in DOMAIN m}] :
        \A k \in DOMAIN m : \E i \in DOMAIN l : l[i] = m[k] }

GenFetch ==
    /\ cmd = "generate" /\ pc = "gen_secrets"
    /\ \E ok \in BOOLEAN :
        /\ netCalls' = Append(netCalls, Call("GetAllEnvironmentVariables", <<>>, ok))
        /\ IF ok
           THEN /\ pc' = "gen_sort"
                /\ secrets' = remote
                /\ UNCHANGED <<exitKind, exitMsg>>
           ELSE /\ HandleError("To fetch all secrets")
                /\ UNCHANGED secrets
    /\ UNCHANGED <<cmd, args, remote, secretByKey, setVars, delVars, genVars,
                   table>>

GenSort ==
    /\ cmd = "generate" /\ pc = "gen_sort"
    /\ secrets' \in SortSlice(secrets, "moreTags")
    /\ pc' = "gen_count"
    /\ UNCHANGED <<cmd, args, remote, secretByKey, setVars, delVars, genVars,
                   netCalls, exitKind, exitMsg, table>>

GenCount ==
    /\ cmd = "generate" /\ pc = "gen_count"
    /\ tagsHashToSecretKey' = CountPass(<<>>, secrets)
    /\ pc' = "gen_group"
    /\ UNCHANGED <<cmd, args, remote, secrets, secretByKey, setVars, delVars,
                   finalTagHashToSecretKey, listOfsecretDetails, emitted,
                   prevEmitted, run, netCalls, exitKind, exitMsg, table>>

GenGroup ==
    /\ cmd = "generate" /\ pc = "gen_group"
    /\ LET st == GroupPass([counts |-> tagsHashToSecretKey, final |-> <<>>],
                           secrets)
       IN  /\ tagsHashToSecretKey' = st.counts
           /\ finalTagHashToSecretKey' = st.final
    /\ pc' = "gen_order"
    /\ UNCHANGED <<cmd, args, remote, secrets, secretByKey, setVars, delVars,
                   listOfsecretDetails, emitted, prevEmitted, run, netCalls,
                   exitKind, exitMsg, table>>

GenOrder ==
    /\ cmd = "generate" /\ pc = "gen_order"
    /\ \E l \in MapValuesInSomeOrder(finalTagHashToSecretKey) :
        listOfsecretDetails' \in SortSlice(l, "fewerTags")
    /\ pc' = "gen_emit"
    /\ UNCHANGED <<cmd, args, remote, secrets, secretByKey, setVars, delVars,
                   tagsHashToSecretKey, finalTagHashToSecretKey, emitted,
                   prevEmitted, run, netCalls, exitKind, exitMsg, table>>

\* One printed block: the heading's tags and the keys of its rows
GenEmit ==
    /\ cmd = "generate" /\ pc = "gen_emit"
    /\ emitted' = [i \in DOMAIN listOfsecretDetails |->
            [Tags |-> listOfsecretDetails[i].Tags,
             Keys |-> [n \in DOMAIN listOfsecretDetails[i].Secrets |->
                          listOfsecretDetails[i].Secrets[n].Key]]]
    /\ pc' = "done"
    /\ exitKind' = "ok"
    /\ UNCHANGED <<cmd, args, remote, secrets, secretByKey, setVars, delVars,
                   tagsHashToSecretKey, finalTagHashToSecretKey,
                   listOfsecretDetails, prevEmitted, run, netCalls, exitMsg,
                   table>>

\* The command is run again while the server still holds the same secrets
GenRunAgain ==
    /\ cmd = "generate" /\ pc = "done" /\ run < MaxRuns
    /\ run' = run + 1
    /\ prevEmitted' = emitted
    /\ emitted' = <<>>
    /\ secrets' = <<>>
    /\ tagsHashToSecretKey' = <<>>
    /\ finalTagHashToSecretKey' = <<>>
    /\ listOfsecretDetails' = <<>>
    /\ netCalls' = <<>>
    /\ exitKind' = ""
    /\ pc' = "gen_secrets"
    /\ UNCHANGED <<cmd, args, remote, secretByKey, setVars, delVars, exitMsg,
                   table>>

\* cobra.NoArgs
InitGen ==
    /\ cmd = "generate"
    /\ args = <<>>
    /\ remote \in GenRemotes
    /\ pc = "gen_secrets"
    /\ InitLocals

NextGen ==
    \/ GenFetch
    \/ GenSort
    \/ GenCount
    \/ GenGroup
    \/ GenOrder
    \/ GenEmit
    \/ GenRunAgain

SpecGen == InitGen /\ [][NextGen]_vars

-----------------------------------------------------------------------------
(* The three commands together *)

Init == InitSet \/ InitDelete \/ InitGen

Next == NextSet \/ NextDelete \/ NextGen

Spec == Init /\ [][Next]_vars

-----------------------------------------------------------------------------
(* Properties of secrets set *)

KeyOfArg(arg) == SplitN(arg)[1]
ValueOfArg(arg) == SplitN(arg)[2]

\* arg is "key=value" with a key and a value the loop accepts
ValidArg(arg) ==
    /\ Len(SplitN(arg)) = 2
    /\ KeyOfArg(arg) # <<>>
    /\ ValueOfArg(arg) # <<>>
    /\ ~IsNumber(KeyOfArg(arg)[1])

\* arg has an empty key, an empty value or a key starting with a digit
BadEntry(arg) ==
    \/ KeyOfArg(arg) = <<>>
    \/ /\ Len(SplitN(arg)) = 2
       /\ \/ ValueOfArg(arg) = <<>>
          \/ IsNumber(KeyOfArg(arg)[1])

Called(api) == \E n \in DOMAIN netCalls : netCalls[n].api = api

FetchCalls ==
    <<Call("GetEncryptedWorkspaceKey", <<>>, TRUE),
      Call("GetAllEnvironmentVariables", <<>>, TRUE)>>

\* The loop over the arguments has run to its end
LoopDone ==
    /\ cmd = "set"
    /\ \/ pc \in {"set_create", "set_modify", "set_print", "done"}
       \/ pc = "exited" /\ exitKind = "error" /\ Len(netCalls) > Len(FetchCalls)

OpCount(op) ==
    Cardinality({i \in DOMAIN secretOperations :
                    secretOperations[i].SecretOperation = op})

OpKinds == {"SECRET CREATED", "SECRET VALUE MODIFIED", "SECRET VALUE UNCHANGED"}

\* C1: for valid arguments the loop records exactly one operation per
\* argument, of one of the three kinds, so the three counts add up to the
\* number of arguments; the create batch has as many entries as operations
\* logged Created and the modify batch as many as logged Modified.
C1_OneOperationPerArgument ==
    /\ (cmd = "set" /\ (\A i \in DOMAIN args : ValidArg(args[i]))
            /\ pc \notin {"set_key", "set_secrets", "set_reconcile"}
            /\ Len(netCalls) >= Len(FetchCalls))
        => (LoopDone \/ (pc = "exited" /\ Len(netCalls) = Len(FetchCalls)
                            /\ exitKind = "error"))
    /\ LoopDone =>
        /\ Len(secretOperations) = Len(args)
        /\ \A i \in DOMAIN args :
            /\ secretOperations[i].SecretOperation \in OpKinds
            /\ secretOperations[i].SecretKey = ToUpper(KeyOfArg(args[i]))
            /\ secretOperations[i].SecretValue = ValueOfArg(args[i])
        /\ OpCount("SECRET CREATED") + OpCount("SECRET VALUE MODIFIED")
               + OpCount("SECRET VALUE UNCHANGED") = Len(args)
        /\ Len(secretsToCreate) = OpCount("SECRET CREATED")
        /\ Len(secretsToModify) = OpCount("SECRET VALUE MODIFIED")

C1_Witness ==
    /\ LoopDone
    /\ Len(args) > 1
    /\ OpCount("SECRET CREATED") > 0
    /\ OpCount("SECRET VALUE UNCHANGED") > 0

\* The reference diff: the entry of the fetched list the argument names,
\* found by scanning the list, not by the map
RefMatches(arg) ==
    {j \in DOMAIN secrets : secrets[j].Key = ToUpper(KeyOfArg(arg))}

RefExisting(arg) ==
    secrets[CHOOSE j \in RefMatches(arg) : \A n \in RefMatches(arg) : n <= j]

RefKind(arg) ==
    IF RefMatches(arg) = {} THEN "SECRET CREATED"
    ELSE IF RefExisting(arg).Value # ValueOfArg(arg) THEN "SECRET VALUE MODIFIED"
    ELSE "SECRET VALUE UNCHANGED"

RECURSIVE RefCreate(_)
RefCreate(as) ==
    IF as = <<>> THEN <<>>
    ELSE IF RefKind(Head(as)) = "SECRET CREATED"
         THEN <<[ID |-> <<>>,
                 SecretKeyHash |-> Sha256(ToUpper(KeyOfArg(Head(as)))),
                 SecretValueHash |-> Sha256(ValueOfArg(Head(as))),
                 Type |-> "shared"]>> \o RefCreate(Tail(as))
         ELSE RefCreate(Tail(as))

RECURSIVE RefModify(_)
RefModify(as) ==
    IF as = <<>> THEN <<>>
    ELSE IF RefKind(Head(as)) = "SECRET VALUE MODIFIED"
         THEN <<[ID |-> RefExisting(Head(as)).ID,
                 SecretKeyHash |-> <<>>,
                 SecretValueHash |-> Sha256(ValueOfArg(Head(as))),
                 Type |-> ""]>> \o RefModify(Tail(as))
         ELSE RefModify(Tail(as))

\* C2: every argument is classified as the reference diff classifies it, and
\* the batches are those of the reference diff: one entry with the remote
\* entry's id in the modify batch per argument whose value differs, nothing
\* for an equal value, one entry without id and of type Shared in the create
\* batch per argument whose key the remote mapping lacks.
C2_ClassifiedAsReferenceDiff ==
    LoopDone =>
        /\ \A i \in DOMAIN args :
            secretOperations[i].SecretOperation = RefKind(args[i])
        /\ secretsToCreate = RefCreate(args)
        /\ secretsToModify = RefModify(args)

C2_Witness ==
    /\ LoopDone
    /\ \E i \in DOMAIN args : RefKind(args[i]) = "SECRET VALUE MODIFIED"
    /\ \E i \in DOMAIN args : RefKind(args[i]) = "SECRET CREATED"
    /\ \E j \in DOMAIN secrets : secretsToModify[1].ID = secrets[j].ID

\* C3: a desired key that equals a remote key after uppercase normalization
\* of both is never logged Created, and a name given to delete that equals a
\* remote key after normalization of both resolves to that entry's id.
C3_CaseInsensitiveBothSides ==
    /\ LoopDone =>
        \A i \in DOMAIN args :
            (\E j \in DOMAIN secrets :
                ToUpper(secrets[j].Key) = ToUpper(KeyOfArg(args[i])))
            => secretOperations[i].SecretOperation # "SECRET CREATED"
    /\ (cmd = "delete" /\ secretByKey # <<>>) =>
        \A i \in DOMAIN args : \A j \in DOMAIN secrets :
            ToUpper(secrets[j].Key) = ToUpper(args[i])
            => /\ \E n \in DOMAIN validSecretIdsToDelete :
                    validSecretIdsToDelete[n] = secrets[j].ID
               /\ \A n \in DOMAIN invalidSecretNamesThatDoNotExist :
                    invalidSecretNamesThatDoNotExist[n] # args[i]

\* C4: when every desired key is in the remote set with the same plaintext
\* value, both batches are empty, every operation is logged Unchanged and
\* neither batch call is issued.
C4_IdempotentSet ==
    (/\ LoopDone
     /\ \A i \in DOMAIN args : \E j \in DOMAIN secrets :
            /\ ToUpper(secrets[j].Key) = ToUpper(KeyOfArg(args[i]))
            /\ secrets[j].Value = ValueOfArg(args[i]))
    => /\ secretsToCreate = <<>>
       /\ secretsToModify = <<>>
       /\ \A i \in DOMAIN secretOperations :
            secretOperations[i].SecretOperation = "SECRET VALUE UNCHANGED"
       /\ ~Called("BatchCreateSecretsByWorkspaceAndEnv")
       /\ ~Called("BatchModifySecretsByWorkspaceAndEnv")

\* C6 as claimed: when the validation message is raised, no network call has
\* been made in the invocation.
C6_ValidationBeforeAnyNetworkCall ==
    (cmd = "set" /\ pc = "exited" /\ exitKind = "message") => netCalls = <<>>

\* C6 as amended: an invocation with a bad entry anywhere among its arguments
\* never sends a create or modify batch and prints no table; it ends in the
\* loop (or before it, when a fetch fails), and when it ends with the
\* validation message exactly the two fetches have been issued.
C6_BadEntryStopsBeforeBatches ==
    (cmd = "set" /\ \E i \in DOMAIN args : BadEntry(args[i])) =>
        /\ pc \in {"set_key", "set_secrets", "set_reconcile", "exited"}
        /\ ~Called("BatchCreateSecretsByWorkspaceAndEnv")
        /\ ~Called("BatchModifySecretsByWorkspaceAndEnv")
        /\ ~table.printed
        /\ pc = "exited" =>
            \/ exitKind = "error" /\ Len(netCalls) <= Len(FetchCalls)
            \/ exitKind = "panic" /\ netCalls = FetchCalls
            \/ /\ exitKind = "message"
               /\ exitMsg \in {MsgEmpty, MsgNumber}
               /\ netCalls = FetchCalls

C6_Witness ==
    /\ cmd = "set" /\ pc = "exited" /\ exitKind = "message"
    /\ exitMsg = MsgNumber
    /\ Len(args) > 1
    /\ ValidArg(args[1])
    /\ RefKind(args[1]) = "SECRET CREATED"
    /\ secretsToCreate # <<>>

CallIndex(api) == CHOOSE n \in DOMAIN netCalls : netCalls[n].api = api

\* C7: the create call, made exactly when the create batch is not empty,
\* comes before the modify call; a failed create call is the last call of
\* the invocation, so the modify call is never made after it; after a failure
\* of either batch call the command has ended and the table is not printed.
C7_CreateBeforeModifyAndFailFast ==
    cmd = "set" =>
        /\ (Called("BatchCreateSecretsByWorkspaceAndEnv")
                /\ Called("BatchModifySecretsByWorkspaceAndEnv"))
            => CallIndex("BatchCreateSecretsByWorkspaceAndEnv")
                    < CallIndex("BatchModifySecretsByWorkspaceAndEnv")
        /\ Called("BatchCreateSecretsByWorkspaceAndEnv") => secretsToCreate # <<>>
        /\ (pc \in {"set_modify", "set_print", "done"} /\ secretsToCreate # <<>>)
            => Called("BatchCreateSecretsByWorkspaceAndEnv")
        /\ \A n \in DOMAIN netCalls :
            (netCalls[n].api = "BatchCreateSecretsByWorkspaceAndEnv" /\ ~netCalls[n].ok)
            => /\ n = Len(netCalls)
               /\ ~Called("BatchModifySecretsByWorkspaceAndEnv")
        /\ \A n \in DOMAIN netCalls :
            (netCalls[n].api \in {"BatchCreateSecretsByWorkspaceAndEnv",
                                  "BatchModifySecretsByWorkspaceAndEnv"}
                /\ ~netCalls[n].ok)
            => /\ pc = "exited"
               /\ ~table.printed

C7_Witness ==
    /\ cmd = "set" /\ pc = "exited" /\ exitKind = "error"
    /\ netCalls[Len(netCalls)].api = "BatchCreateSecretsByWorkspaceAndEnv"
    /\ ~netCalls[Len(netCalls)].ok
    /\ secretsToModify # <<>>

\* The plaintext key a batch entry stands for
RemoteKeyOfId(id) ==
    (CHOOSE j \in DOMAIN secrets : secrets[j].ID = id)

\* C10: the create batch holds at most one entry per normalized key, and no
\* key has an entry in both batches.
C10_OneEntryPerKey ==
    LoopDone =>
        /\ \A i, j \in DOMAIN secretsToCreate :
            i # j => secretsToCreate[i].SecretKeyHash # secretsToCreate[j].SecretKeyHash
        /\ \A i \in DOMAIN secretsToCreate : \A j \in DOMAIN secretsToModify :
            secretsToCreate[i].SecretKeyHash
                # Sha256(ToUpper(secrets[RemoteKeyOfId(secretsToModify[j].ID)].Key))

-----------------------------------------------------------------------------
(* Properties of secrets delete *)

\* The entries of the server's list a requested name resolves to
NamedEntries(name) == {j \in DOMAIN remote : remote[j].Key = ToUpper(name)}

\* The requested names that resolve to no entry, in argument order
RECURSIVE UnknownNames(_)
UnknownNames(names) ==
    IF names = <<>> THEN <<>>
    ELSE IF NamedEntries(Head(names)) = {}
         THEN <<Head(names)>> \o UnknownNames(Tail(names))
         ELSE UnknownNames(Tail(names))

DeleteCalls ==
    {n \in DOMAIN netCalls : netCalls[n].api = "BatchDeleteSecretsByWorkspaceAndEnv"}

\* C5: with a requested name that matches no remote entry the delete call is
\* never issued, the command does not complete, and the message it ends with
\* names all the unknown names; the delete call is issued at most once, only
\* when every name resolved, and carries the id of the entry of each
\* requested name, in argument order.
C5_DeleteAllOrNothing ==
    cmd = "delete" =>
        /\ UnknownNames(args) # <<>> =>
            /\ DeleteCalls = {}
            /\ pc # "done"
            /\ (pc = "exited" /\ exitKind = "message")
                => exitMsg = MsgDoesNotExist(UnknownNames(args))
        /\ \A i \in DOMAIN args :
            (\A j \in DOMAIN remote : ToUpper(remote[j].Key) # ToUpper(args[i]))
            => DeleteCalls = {}
        /\ Cardinality(DeleteCalls) <= 1
        /\ \A n \in DeleteCalls :
            /\ UnknownNames(args) = <<>>
            /\ Len(netCalls[n].body) = Len(args)
            /\ \A i \in DOMAIN args : \E j \in NamedEntries(args[i]) :
                netCalls[n].body[i] = remote[j].ID
        /\ pc = "done" => DeleteCalls # {}

C5_Witness ==
    /\ cmd = "delete" /\ pc = "exited" /\ exitKind = "message"
    /\ validSecretIdsToDelete # <<>>
    /\ invalidSecretNamesThatDoNotExist # <<>>
    /\ DeleteCalls = {}

-----------------------------------------------------------------------------
(* Properties of secrets generate-example-env *)

SlugSet(secret) == Range(secret.Tags)

Grouped == cmd = "generate" /\ pc \in {"gen_order", "gen_emit", "done"}

\* The groups (map keys) whose member list holds the secret
GroupsOf(secret) ==
    {h \in DOMAIN finalTagHashToSecretKey :
        \E n \in DOMAIN finalTagHashToSecretKey[h].Secrets :
            finalTagHashToSecretKey[h].Secrets[n] = secret}

\* C8: after the two passes every fetched secret is in exactly one group,
\* once, and that group is the one of its own tag set; no group holds
\* anything else; two secrets share a group exactly when their sets of tag
\* slugs are equal, whatever the order of the tags; the members of each
\* group are in ascending order of key.
C8_TwoPassIsGroupBy ==
    Grouped =>
        /\ \A i \in DOMAIN remote :
            /\ Cardinality(GroupsOf(remote[i])) = 1
            /\ \A h \in GroupsOf(remote[i]) :
                /\ Range(finalTagHashToSecretKey[h].Tags) = SlugSet(remote[i])
                /\ Cardinality({n \in DOMAIN finalTagHashToSecretKey[h].Secrets :
                        finalTagHashToSecretKey[h].Secrets[n] = remote[i]}) = 1
        /\ \A h \in DOMAIN finalTagHashToSecretKey :
            /\ finalTagHashToSecretKey[h].Secrets # <<>>
            /\ Range(finalTagHashToSecretKey[h].Secrets) \subseteq Range(remote)
            /\ \A n, m \in DOMAIN finalTagHashToSecretKey[h].Secrets :
                n < m => StrLess(finalTagHashToSecretKey[h].Secrets[n].Key,
                                 finalTagHashToSecretKey[h].Secrets[m].Key)
        /\ \A i, j \in DOMAIN remote :
            (GroupsOf(remote[i]) = GroupsOf(remote[j]))
                <=> (SlugSet(remote[i]) = SlugSet(remote[j]))

C8_Witness ==
    /\ Grouped /\ pc = "done"
    /\ Cardinality(DOMAIN finalTagHashToSecretKey) > 1
    /\ \E i, j \in DOMAIN remote :
        /\ i < j
        /\ remote[i].Tags # remote[j].Tags
        /\ SlugSet(remote[i]) = SlugSet(remote[j])
        /\ StrLess(remote[j].Key, remote[i].Key)
        /\ GroupsOf(remote[i]) = GroupsOf(remote[j])

\* The groups of one run's output, each named by its set of tag slugs
GroupOrder(out) == [i \in DOMAIN out |-> Range(out[i].Tags)]

\* C9: two runs on the same remote secrets emit the groups in the same
\* sequence, which is in ascending number of tags.
C9_SameGroupOrderEveryRun ==
    (cmd = "generate" /\ pc = "done") =>
        /\ \A i, j \in DOMAIN emitted :
            i < j => Len(emitted[i].Tags) <= Len(emitted[j].Tags)
        /\ run > 1 => GroupOrder(emitted) = GroupOrder(prevEmitted)

-----------------------------------------------------------------------------
(* Argument parsing of secrets set *)

\* C11: every argument is accepted as a (key, value) pair or rejected with
\* the validation message: the command never ends by a runtime panic of the
\* argument parsing, and once both fetches have succeeded an argument list
\* holding an argument that is no valid pair (an empty key or value, no "="
\* at all, an empty argument, a key starting with a digit) ends with one of
\* the two validation messages.
C11_RejectedByValidationNeverCrash ==
    cmd = "set" =>
        /\ exitKind # "panic"
        /\ (/\ netCalls = FetchCalls
            /\ pc # "set_reconcile"
            /\ \E i \in DOMAIN args : ~ValidArg(args[i]))
            => /\ pc = "exited"
               /\ exitKind = "message"
               /\ exitMsg \in {MsgEmpty, MsgNumber}

=============================================================================
